---- MODULE Spec2Model ----
(***************************************************************************)
(* A model of src/library.py: the Book and Library classes and the console *)
(* application built on them.                                              *)
(*                                                                         *)
(* Three specifications share the module's variables:                      *)
(*   Spec      one run of the console application (lines 123-286);         *)
(*   LibSpec   a client calling Library.search and Library.delete          *)
(*             directly, with any arguments, on any Library;               *)
(*   FileSpec  a client calling Library.save, Library() and                *)
(*             Library.load_data directly.                                 *)
(*                                                                         *)
(* Python strings are TLA+ strings. The two status labels of the source    *)
(* are Cyrillic; they are transliterated here: "V nalichii" stands for      *)
(* the source's in-stock label and "Vydana" for its checked-out label.     *)
(* A Python dict is a function whose DOMAIN is the dict's key set.         *)
(* A Book object is a record of its five attributes plus `ref`, the        *)
(* object's identity (Book defines no __eq__, so == is identity).          *)
(***************************************************************************)
EXTENDS Integers, Sequences, FiniteSets, TLC

VARIABLES
    default_id,  \* the default of Book.__init__'s id, evaluated once (line 25)
    books,       \* Library.books (line 55)
    pc,          \* the process's position: "start", "opened", "loop", "client", "halted"
    halt,        \* the exception that ended the process, "none" while it runs
    filepath,    \* the path read at startup (line 268)
    disk,        \* the content of the catalogue file "f"
    printed,     \* the MESSAGES key of the last line printed
    call,        \* LibSpec, FileSpec: the last Library call and its arguments
    ret,         \* LibSpec, FileSpec: what that call returned
    raised,      \* LibSpec, FileSpec: the exception that call raised, or "none"
    saved        \* FileSpec, history: the Library.books the file was saved from

vars == <<default_id, books, pc, halt, filepath, disk, printed, call, ret, raised, saved>>

(***************************************************************************)
(* Bounds                                                                  *)
(***************************************************************************)
\* the most Books the console run's Library holds
MaxBooks == 2
\* the most Books a Library of LibSpec and FileSpec holds
MaxLibBooks == 3

\* the value uuid4 produced when the class body was executed
UUIDs == {"u1"}
\* the attribute values of the Books a client of the classes builds
Ids == {"1", "2"}
Titles == {"A", "B"}
Authors == {"X"}
Years == {"1965"}

(***************************************************************************)
(* Book                                                                    *)
(***************************************************************************)
IN_STOCK == "V nalichii"
CHECKED_OUT == "Vydana"

BOOK_STATUSES == ("0" :> CHECKED_OUT) @@ ("1" :> IN_STOCK)

BookStatusValues == {BOOK_STATUSES[k] : k \in DOMAIN BOOK_STATUSES}

\* Book(title, author, year, id, status) allocated at identity ref:
\* the Book, or the ValueError of line 35 and no Book
BookInit(ref, title, author, year, id, status) ==
    IF status \in BookStatusValues
    THEN [exc |-> "none",
          book |-> [ref |-> ref, id |-> id, title |-> title, author |-> author,
                    year |-> year, status |-> status]]
    ELSE [exc |-> "ValueError"]

\* (mutant: the code is stored instead of the label it stands for)
set_status_RawCode(book, status) ==
    [exc |-> "none", book |-> [book EXCEPT !.status = status]]

\* book.set_status(status): the Book with its status replaced, or KeyError

set_status(book, status) ==
    IF status \in DOMAIN BOOK_STATUSES
    THEN [exc |-> "none", book |-> [book EXCEPT !.status = BOOK_STATUSES[status]]]
    ELSE [exc |-> "KeyError"]

\* x.__dict__ of a Book: its attributes, and not its identity
BookDict(book) ==
    [id |-> book.id, title |-> book.title, author |-> book.author,
     year |-> book.year, status |-> book.status]

\* an identity no object of the list has: the smallest one
FreshRef(bs) ==
    CHOOSE r \in 1..(Len(bs) + 1) :
        /\ \A i \in 1..Len(bs) : bs[i].ref # r
        /\ \A q \in 1..(r - 1) : \E i \in 1..Len(bs) : bs[i].ref = q

(***************************************************************************)
(* Library                                                                 *)
(***************************************************************************)
\* Library.add_book: list.append
add_book(bs, book) == Append(bs, book)

\* the first index of the list holding the object, 0 when none does
IndexOf(bs, book) ==
    IF \E i \in 1..Len(bs) : bs[i].ref = book.ref
    THEN CHOOSE i \in 1..Len(bs) :
            /\ bs[i].ref = book.ref
            /\ \A j \in 1..(i - 1) : bs[j].ref # book.ref
    ELSE 0

\* Library.delete: list.remove, which drops the first occurrence and raises
\* ValueError, leaving the list alone, when there is none
\* (mutant: removal by equal attributes instead of by identity)
delete_ByValue(bs, book) ==
    IF \E i \in 1..Len(bs) : BookDict(bs[i]) = BookDict(book)
    THEN LET i == CHOOSE i \in 1..Len(bs) :
                    /\ BookDict(bs[i]) = BookDict(book)
                    /\ \A j \in 1..(i - 1) : BookDict(bs[j]) # BookDict(book)
         IN [exc |-> "none", books |-> SubSeq(bs, 1, i - 1) \o SubSeq(bs, i + 1, Len(bs))]
    ELSE [exc |-> "ValueError", books |-> bs]

delete(bs, book) ==
    LET i == IndexOf(bs, book) IN
    IF i = 0
    THEN [exc |-> "ValueError", books |-> bs]
    ELSE [exc |-> "none",
          books |-> SubSeq(bs, 1, i - 1) \o SubSeq(bs, i + 1, Len(bs))]

\* the keyword names Library.search may be called with, in call order
SearchFields == <<"id", "title", "author", "year">>

\* Python truth of a string: non-empty
Truthy(value) == value # ""

\* kwargs.items() restricted to the truthy values (lines 115-116), as the
\* sequence of field names
RECURSIVE TruthyItems(_, _)
TruthyItems(kwargs, k) ==
    IF k > Len(SearchFields) THEN <<>>
    ELSE LET field == SearchFields[k] IN
         IF field \in DOMAIN kwargs /\ Truthy(kwargs[field])
         THEN <<field>> \o TruthyItems(kwargs, k + 1)
         ELSE TruthyItems(kwargs, k + 1)

\* the list comprehension of lines 113-117 for one book
Comparisons(book, kwargs) ==
    LET items == TruthyItems(kwargs, 1) IN
    [k \in 1..Len(items) |-> book[items[k]] = kwargs[items[k]]]

\* (mutant: operator.or_ in place of operator.and_)
ReduceOr(seq) == \E k \in 1..Len(seq) : seq[k]

\* reduce(operator.and_, seq) without an initial value, seq non-empty
RECURSIVE ReduceAnd(_)
ReduceAnd(seq) ==
    IF Len(seq) = 1 THEN seq[1]
    ELSE ReduceAnd(<<seq[1] /\ seq[2]>> \o SubSeq(seq, 3, Len(seq)))

\* the loop of lines 110-119 from book i on, found being the list so far;
\* reduce of an empty list raises TypeError
RECURSIVE FilterLoop(_, _, _, _)
FilterLoop(bs, kwargs, i, found) ==
    IF i > Len(bs) THEN [exc |-> "none", type |-> "list", val |-> found]
    ELSE LET comparisons == Comparisons(bs[i], kwargs) IN
         IF Len(comparisons) = 0
         THEN [exc |-> "TypeError", type |-> "None", val |-> <<>>]
         ELSE FilterLoop(bs, kwargs, i + 1,
                         IF ReduceAnd(comparisons) THEN Append(found, bs[i]) ELSE found)

\* Library.search(**kwargs): a Book (type "Book", val the one-element
\* sequence holding it), a list of Books (type "list"), or an exception
search(bs, kwargs) ==
    IF "id" \in DOMAIN kwargs /\ \E i \in 1..Len(bs) : bs[i].id = kwargs["id"]
    THEN LET i == CHOOSE i \in 1..Len(bs) :
                    /\ bs[i].id = kwargs["id"]
                    /\ \A j \in 1..(i - 1) : bs[j].id # kwargs["id"]
         IN [exc |-> "none", type |-> "Book", val |-> <<bs[i]>>]
    ELSE FilterLoop(bs, kwargs, 1, <<>>)

\* Python truth of what search returned: a Book is true, a list is true
\* when it is not empty
ResultTruthy(r) == r.type = "Book" \/ (r.type = "list" /\ Len(r.val) > 0)

(***************************************************************************)
(* Files. The text of a file is "nofile" (no such file), "garbage" (text   *)
(* json.load cannot parse) or "json" with the value the text denotes.      *)
(***************************************************************************)
NoFile == [kind |-> "nofile"]
Garbage == [kind |-> "garbage"]

\* json.load(fp)
JsonLoad(text) ==
    IF text.kind = "json"
    THEN [exc |-> "none", value |-> text.value]
    ELSE [exc |-> "JSONDecodeError"]

\* json.dump(library, fp, default=lambda x: x.__dict__): the Library's
\* __dict__, whose books are each replaced by their __dict__
RECURSIVE DumpBooks(_)
DumpBooks(bs) ==
    IF Len(bs) = 0 THEN <<>> ELSE <<BookDict(Head(bs))>> \o DumpBooks(Tail(bs))

JsonDump(bs) == [kind |-> "json", value |-> [books |-> DumpBooks(bs)]]

\* Library.save
save(bs) == JsonDump(bs)

\* (mutant: the year and the id passed in each other's position)
MakeBook_Swapped(ref, book) ==
    BookInit(ref, book["title"], book["author"], book["id"], book["year"], book["status"])

\* the Book(...) call of lines 81-87 on one element of the books array
MakeBook(ref, book) ==
    BookInit(ref, book["title"], book["author"], book["year"], book["id"], book["status"])

\* the for loop of lines 75-88 from element i on, bs being self.books so
\* far. ids_set is the dict of line 74; no statement adds a key to it.
RECURSIVE LoadLoop(_, _, _, _)
LoadLoop(data, i, ids_set, bs) ==
    IF i > Len(data) THEN [exc |-> "none", books |-> bs]
    ELSE LET book == data[i] IN
         IF "id" \notin DOMAIN book THEN [exc |-> "KeyError", books |-> bs]
         ELSE IF book["id"] \in ids_set THEN [exc |-> "ValueError", books |-> bs]
         ELSE IF \E k \in {"title", "author", "year", "status"} : k \notin DOMAIN book
         THEN [exc |-> "KeyError", books |-> bs]
         ELSE LET made == MakeBook(FreshRef(bs), book)
              IN IF made.exc # "none" THEN [exc |-> made.exc, books |-> bs]
                 ELSE LoadLoop(data, i + 1, ids_set, add_book(bs, made.book))

\* the try block of lines 73-88
LoadTry(bs, fp) ==
    LET parsed == JsonLoad(fp) IN
    IF parsed.exc # "none" THEN [exc |-> parsed.exc, books |-> bs]
    ELSE IF "books" \notin DOMAIN parsed.value THEN [exc |-> "KeyError", books |-> bs]
    ELSE LoadLoop(parsed.value["books"], 1, {}, bs)

\* (mutant: the exception handlers return to the caller instead of exiting)
load_data_Returns(bs, fp) == [exc |-> "none", books |-> LoadTry(bs, fp).books]

\* Library.load_data(fp) on a Library holding bs: how the call ends and what
\* the Library then holds. exit(exc) raises SystemExit; exit(message, exc)
\* passes exit one argument too many and raises TypeError instead.
load_data(bs, fp) ==
    LET r == LoadTry(bs, fp) IN
    IF r.exc \in {"JSONDecodeError", "KeyError"} THEN [exc |-> "TypeError", books |-> r.books]
    ELSE IF r.exc = "ValueError" THEN [exc |-> "SystemExit", books |-> r.books]
    ELSE r

(***************************************************************************)
(* The console application (lines 123-286)                                 *)
(***************************************************************************)
\* what the user may type at the path prompts: nothing, the catalogue
\* file, or a directory (which open refuses with OSError)
Paths == {"", "f", "d"}
\* what the user may type at the title, author and year prompts of add
\* (after strip)
TitleInputs == {"A"}
AuthorInputs == {"X"}
YearInputs == {"1965"}
\* what the user may type at the ID prompt
IdInputs == {"", "1", "9"} \cup UUIDs
\* what the user may type at the status prompt
StatusInputs == {"0", "1", "2"}

\* open(path) succeeds
CanOpenRead(path) == path = "f" /\ disk.kind # "nofile"
\* open(path, 'w') succeeds
CanOpenWrite(path) == path = "f"

\* the catalogue files a run may find on disk
Elem(id, title, status) ==
    [id |-> id, title |-> title, author |-> "X", year |-> "1965", status |-> status]

FileOf(elems) == [kind |-> "json", value |-> [books |-> elems]]

InitialFiles ==
    { NoFile,
      Garbage,
      [kind |-> "json", value |-> [k \in {} |-> <<>>]],
      FileOf(<<>>),
      FileOf(<<Elem("1", "A", IN_STOCK), Elem("2", "B", CHECKED_OUT)>>),
      FileOf(<<Elem("1", "A", IN_STOCK), Elem("1", "B", IN_STOCK)>>),
      FileOf(<<Elem("1", "A", IN_STOCK), Elem("2", "B", "0")>>),
      FileOf(<<Elem("1", "A", IN_STOCK), [id |-> "2", title |-> "B", author |-> "X",
                                          status |-> IN_STOCK]>>),
      FileOf(<<[title |-> "A", author |-> "X", year |-> "1965", status |-> IN_STOCK]>>) }

NoCall == [op |-> "none"]
NoReturn == [exc |-> "none", type |-> "None", val |-> <<>>]

Init ==
    /\ default_id \in UUIDs
    /\ books = <<>>
    /\ pc = "start"
    /\ halt = "none"
    /\ filepath = ""
    /\ disk \in InitialFiles
    /\ printed = "PATH_REQUEST"
    /\ call = NoCall
    /\ ret = NoReturn
    /\ raised = "none"
    /\ saved = [valid |-> FALSE, books |-> <<>>]

ClientUnchanged == UNCHANGED <<default_id, call, ret, raised>>

\* lines 267-278, up to the end of the load
Startup(path) ==
    /\ pc = "start"
    /\ filepath' = path
    /\ IF path = ""
       THEN /\ books' = <<>>
            /\ pc' = "loop"
            /\ printed' = "NEW_LIBRARY"
            /\ halt' = halt
       ELSE IF ~CanOpenRead(path)
       THEN /\ books' = <<>>
            /\ pc' = "loop"
            /\ printed' = "OPEN_ERROR"
            /\ halt' = halt
       ELSE LET r == load_data(<<>>, disk) IN
            /\ books' = r.books
            /\ pc' = IF r.exc = "none" THEN "opened" ELSE "halted"
            /\ halt' = r.exc
            /\ printed' = printed
    /\ UNCHANGED <<disk, saved>>
    /\ ClientUnchanged

\* line 274, then into the loop
OpenSuccess ==
    /\ pc = "opened"
    /\ pc' = "loop"
    /\ printed' = "OPEN_SUCCESS"
    /\ UNCHANGED <<books, halt, filepath, disk, saved>>
    /\ ClientUnchanged

\* the add command: add (lines 165-172)
add(title, author, year) ==
    /\ pc = "loop"
    /\ Len(books) < MaxBooks
    /\ LET made == BookInit(FreshRef(books), title, author, year, default_id, IN_STOCK) IN
       /\ made.exc = "none"
       /\ books' = add_book(books, made.book)
    /\ printed' = "BOOK_ADDED"
    /\ UNCHANGED <<pc, halt, filepath, disk, saved>>
    /\ ClientUnchanged

\* the delete command: delete (lines 174-185)
delete_(id) ==
    /\ pc = "loop"
    /\ IF Truthy(id)
       THEN LET book == search(books, [id |-> id]) IN
            IF ResultTruthy(book)
            THEN /\ books' = delete(books, book.val[1]).books
                 /\ printed' = "BOOK_DELETED"
            ELSE /\ books' = books
                 /\ printed' = "BOOK_NOT_FOUND"
       ELSE /\ books' = books
            /\ printed' = "INTERRUPTED"
    /\ UNCHANGED <<pc, halt, filepath, disk, saved>>
    /\ ClientUnchanged

\* the catalogue command: list_ (lines 191-194)
list_ ==
    /\ pc = "loop"
    /\ printed' = (IF Len(books) > 0 THEN "CATALOG" ELSE printed)
    /\ UNCHANGED <<books, pc, halt, filepath, disk, saved>>
    /\ ClientUnchanged

\* the help command: help_ (lines 187-189)
help_ ==
    /\ pc = "loop"
    /\ printed' = "HELP"
    /\ UNCHANGED <<books, pc, halt, filepath, disk, saved>>
    /\ ClientUnchanged

\* any other word: unknown_command (lines 246-248)
unknown_command ==
    /\ pc = "loop"
    /\ printed' = "BAD_COMMAND"
    /\ UNCHANGED <<books, pc, halt, filepath, disk, saved>>
    /\ ClientUnchanged

\* the Library with the Book object of identity ref replaced by its new state
Store(bs, book) == [i \in 1..Len(bs) |-> IF bs[i].ref = book.ref THEN book ELSE bs[i]]

\* (mutant: the code is not checked before set_status, whose KeyError then
\* ends the process)
status_NoCodeCheck(id, code) ==
    /\ pc = "loop"
    /\ IF Truthy(id) /\ ResultTruthy(search(books, [id |-> id]))
       THEN LET r == set_status(search(books, [id |-> id]).val[1], code) IN
            IF r.exc = "none"
            THEN /\ books' = Store(books, r.book)
                 /\ printed' = "STATUS_SET"
                 /\ UNCHANGED <<pc, halt>>
            ELSE /\ books' = books
                 /\ printed' = printed
                 /\ pc' = "halted"
                 /\ halt' = r.exc
       ELSE /\ books' = books
            /\ printed' = (IF Truthy(id) THEN "BOOK_NOT_FOUND" ELSE "INTERRUPTED")
            /\ UNCHANGED <<pc, halt>>
    /\ UNCHANGED <<filepath, disk, saved>>
    /\ ClientUnchanged

\* the status command: status (lines 196-211); the status prompt is reached
\* only when the book is found
status(id, code) ==
    /\ pc = "loop"
    /\ IF Truthy(id)
       THEN LET book == search(books, [id |-> id]) IN
            IF ResultTruthy(book)
            THEN IF code \in DOMAIN BOOK_STATUSES
                 THEN /\ books' = Store(books, set_status(book.val[1], code).book)
                      /\ printed' = "STATUS_SET"
                 ELSE /\ books' = books
                      /\ printed' = "BAD_STATUS"
            ELSE /\ books' = books
                 /\ printed' = "BOOK_NOT_FOUND"
       ELSE /\ books' = books
            /\ printed' = "INTERRUPTED"
    /\ UNCHANGED <<pc, halt, filepath, disk, saved>>
    /\ ClientUnchanged

\* the save command: save (lines 217-226)
save_(filename) ==
    /\ pc = "loop"
    /\ IF Truthy(filename)
       THEN IF CanOpenWrite(filename)
            THEN /\ disk' = save(books)
                 /\ printed' = "SAVE_SUCCESS"
            ELSE /\ printed' = "SAVE_ERROR"
                 /\ UNCHANGED disk
       ELSE UNCHANGED <<disk, printed>>
    /\ UNCHANGED <<books, pc, halt, filepath, saved>>
    /\ ClientUnchanged

\* the search command: search (lines 228-244)
search_(title, author, year) ==
    /\ pc = "loop"
    /\ IF Truthy(title) \/ Truthy(author) \/ Truthy(year)
       THEN LET found == search(books, [title |-> title, author |-> author, year |-> year]) IN
            /\ found.exc = "none"
            /\ printed' = (IF ResultTruthy(found) THEN "FOUND" ELSE "NOT_FOUND")
       ELSE printed' = "INTERRUPTED"
    /\ UNCHANGED <<books, pc, halt, filepath, disk, saved>>
    /\ ClientUnchanged

\* the quit command: quit_ (lines 213-215)
quit_ ==
    /\ pc = "loop"
    /\ pc' = "halted"
    /\ halt' = "SystemExit"
    /\ printed' = "QUIT"
    /\ UNCHANGED <<books, filepath, disk, saved>>
    /\ ClientUnchanged

Next ==
    \/ \E path \in Paths : Startup(path)
    \/ OpenSuccess
    \/ \E title \in TitleInputs, author \in AuthorInputs, year \in YearInputs :
          add(title, author, year)
    \/ \E id \in IdInputs : delete_(id)
    \/ list_
    \/ help_
    \/ unknown_command
    \/ \E id \in IdInputs, code \in StatusInputs : status(id, code)
    \/ \E filename \in Paths : save_(filename)
    \/ \E title \in TitleInputs \cup {"", "B"}, author \in AuthorInputs \cup {""},
          year \in YearInputs \cup {""} : search_(title, author, year)
    \/ quit_

Spec == Init /\ [][Next]_vars

(***************************************************************************)
(* LibSpec: a Library holding any list of at most MaxLibBooks Books, on    *)
(* which a client calls search and delete with any arguments.              *)
(***************************************************************************)
\* a list of attribute records as Book objects, the i-th of identity i
RECURSIVE AsObjects(_, _)
AsObjects(attrs, n) ==
    IF n = 0 THEN <<>>
    ELSE Append(AsObjects(attrs, n - 1),
                [ref |-> n, id |-> attrs[n].id, title |-> attrs[n].title,
                 author |-> attrs[n].author, year |-> attrs[n].year,
                 status |-> attrs[n].status])

ListsOf(S) == UNION {[1..n -> S] : n \in 0..MaxLibBooks}

LibLibraries ==
    {AsObjects(f, Len(f)) :
        f \in ListsOf([id : Ids, title : Titles, author : Authors, year : Years,
                       status : {IN_STOCK}])}

\* the keyword arguments search is called with: any of the four names,
\* each with an empty value or one some Book may have ("9" is no Book's id)
SearchKwargs ==
    {[k \in D |-> full[k]] :
        full \in [id : {"", "1", "9"}, title : {"", "A"}, author : {"", "X"},
                  year : {"1965"}],
        D \in SUBSET {"id", "title", "author", "year"}}

LibInit ==
    /\ default_id \in UUIDs
    /\ books \in LibLibraries
    /\ pc = "client"
    /\ halt = "none"
    /\ filepath = ""
    /\ disk = NoFile
    /\ printed = "PATH_REQUEST"
    /\ call = NoCall
    /\ ret = NoReturn
    /\ raised = "none"
    /\ saved = [valid |-> FALSE, books |-> <<>>]

ConsoleUnchanged == UNCHANGED <<default_id, filepath, printed>>

\* library.search(**kwargs)
LibSearch(kwargs) ==
    /\ pc = "client"
    /\ call = NoCall
    /\ call' = [op |-> "search", kwargs |-> kwargs, book |-> <<>>]
    /\ LET r == search(books, kwargs) IN
       /\ ret' = [exc |-> "none", type |-> r.type, val |-> r.val]
       /\ raised' = r.exc
    /\ UNCHANGED <<books, pc, halt, disk, saved>>
    /\ ConsoleUnchanged

\* the Books the client may pass to delete: those of the Library, and
\* Book objects it has built and not added
Strangers ==
    {BookInit(FreshRef(books), title, author, year, id, IN_STOCK).book :
        title \in Titles, author \in Authors, year \in Years, id \in Ids}

Members == {books[i] : i \in 1..Len(books)}

\* library.delete(book)
LibDelete(book) ==
    /\ pc = "client"
    /\ call = NoCall
    /\ call' = [op |-> "delete", kwargs |-> <<>>, book |-> <<book>>]
    /\ LET r == delete(books, book) IN
       /\ books' = r.books
       /\ raised' = r.exc
    /\ ret' = NoReturn
    /\ UNCHANGED <<pc, halt, disk, saved>>
    /\ ConsoleUnchanged

\* the client is done with what the call returned or raised
LibReturn ==
    /\ pc = "client"
    /\ call # NoCall
    /\ call' = NoCall
    /\ ret' = NoReturn
    /\ raised' = "none"
    /\ UNCHANGED <<books, pc, halt, disk, saved>>
    /\ ConsoleUnchanged

LibNext ==
    \/ \E kwargs \in SearchKwargs : LibSearch(kwargs)
    \/ \E book \in Members \cup Strangers : LibDelete(book)
    \/ LibReturn

LibSpec == LibInit /\ [][LibNext]_vars

(***************************************************************************)
(* FileSpec: a client that saves a Library to the file, makes a new        *)
(* Library and loads the file into a Library.                              *)
(***************************************************************************)
FileLibraries ==
    {AsObjects(f, Len(f)) :
        f \in ListsOf([id : Ids, title : Titles, author : {"X"}, year : Years,
                       status : BookStatusValues])}

FileInit ==
    /\ default_id \in UUIDs
    /\ books \in FileLibraries
    /\ pc = "client"
    /\ halt = "none"
    /\ filepath = ""
    /\ disk \in InitialFiles
    /\ printed = "PATH_REQUEST"
    /\ call = NoCall
    /\ ret = NoReturn
    /\ raised = "none"
    /\ saved = [valid |-> FALSE, books |-> <<>>]

\* library.save(fp), fp the file opened for writing
FileSave ==
    /\ pc = "client"
    /\ call' = [op |-> "save", kwargs |-> <<>>, book |-> <<>>]
    /\ disk' = save(books)
    /\ saved' = [valid |-> TRUE, books |-> books]
    /\ UNCHANGED <<books, pc, halt, ret, raised>>
    /\ ConsoleUnchanged

\* library = Library() (lines 54-55)
FileNew ==
    /\ pc = "client"
    /\ call' = [op |-> "Library", kwargs |-> <<>>, book |-> <<>>]
    /\ books' = <<>>
    /\ UNCHANGED <<pc, halt, disk, saved, ret, raised>>
    /\ ConsoleUnchanged

\* library.load_data(fp), fp the file opened for reading; exit ends the
\* process
FileLoad ==
    /\ pc = "client"
    /\ disk.kind # "nofile"
    /\ LET r == load_data(books, disk) IN
       /\ Len(r.books) <= MaxLibBooks
       /\ books' = r.books
       /\ pc' = IF r.exc = "none" THEN "client" ELSE "halted"
       /\ halt' = r.exc
    /\ call' = [op |-> "load_data", kwargs |-> <<>>, book |-> <<>>]
    /\ UNCHANGED <<disk, saved, ret, raised>>
    /\ ConsoleUnchanged

FileNext ==
    \/ FileSave
    \/ FileNew
    \/ FileLoad

FileSpec == FileInit /\ [][FileNext]_vars

(***************************************************************************)
(* Properties                                                              *)
(***************************************************************************)
DistinctIds(bs) == \A i, j \in 1..Len(bs) : i # j => bs[i].id # bs[j].id

SameFields(a, b) ==
    /\ a.id = b.id
    /\ a.title = b.title
    /\ a.author = b.author
    /\ a.year = b.year
    /\ a.status = b.status

SameBooks(as, bs) ==
    /\ Len(as) = Len(bs)
    /\ \A i \in 1..Len(as) : SameFields(as[i], bs[i])

\* C1 (Spec): a load of a file whose books array holds two elements with the
\* same id never completes: at the point right after a completed load
\* (line 274) no two Books of the Library share an id.
LoadRejectsDuplicateIds == pc = "opened" => DistinctIds(books)

\* C2 (Spec): in a run that loaded no file, where every Book of the Library
\* was built by the console add command, every two Books have different ids.
ConsoleAddedIdsDistinct == filepath \in {"", "d"} => DistinctIds(books)

NoCriteria(kwargs) ==
    /\ "id" \notin DOMAIN kwargs
    /\ \A k \in DOMAIN kwargs : kwargs[k] = ""

\* C3 (LibSpec): search called with no criteria, or with only empty ones,
\* returns the list of all the Library's Books in sequence order.
SearchNoCriteriaReturnsAll ==
    (call.op = "search" /\ NoCriteria(call.kwargs))
        => (raised = "none" /\ ret.type = "list" /\ ret.val = books)

FirstWithId(bs, id) ==
    CHOOSE i \in 1..Len(bs) : bs[i].id = id /\ \A j \in 1..(i - 1) : bs[j].id # id

\* C4 (LibSpec): search called with an id returns the first Book in sequence
\* order with that id, and no Book when none has it, whatever the other
\* criteria are.
SearchByIdIgnoresOtherCriteria ==
    (call.op = "search" /\ "id" \in DOMAIN call.kwargs)
        => /\ raised = "none"
           /\ IF \E i \in 1..Len(books) : books[i].id = call.kwargs["id"]
              THEN /\ ret.type = "Book"
                   /\ ret.val = <<books[FirstWithId(books, call.kwargs["id"])]>>
              ELSE ret.val = <<>>

MatchesAll(book, kwargs) ==
    \A k \in DOMAIN kwargs : kwargs[k] # "" => book[k] = kwargs[k]

\* C5 (LibSpec): search called without an id and with a non-empty criterion
\* returns the list of exactly the Books whose fields equal every non-empty
\* criterion, in the Library's order.
SearchFiltersOnEveryNonEmptyCriterion ==
    (/\ call.op = "search"
     /\ "id" \notin DOMAIN call.kwargs
     /\ \E k \in DOMAIN call.kwargs : call.kwargs[k] # "")
        => /\ raised = "none"
           /\ ret.type = "list"
           /\ ret.val = SelectSeq(books, LAMBDA b : MatchesAll(b, call.kwargs))

\* a search by title and author, one criterion empty, that kept the first
\* and the third of three Books and dropped the second
SearchFilterWitness ==
    /\ call.op = "search"
    /\ DOMAIN call.kwargs = {"title", "author", "year"}
    /\ call.kwargs["title"] = "A"
    /\ call.kwargs["author"] = ""
    /\ Len(books) = 3
    /\ books[2].title = "B"
    /\ books[2].year = call.kwargs["year"]
    /\ ret.val = <<books[1], books[3]>>

\* C6 (FileSpec): loading a file saved from a Library with pairwise distinct
\* ids into an empty Library ends normally and yields Books equal, field by
\* field and in order, to those saved.
SaveLoadRoundTrip ==
    [][(/\ call'.op = "load_data"
        /\ books = <<>>
        /\ saved.valid
        /\ DistinctIds(saved.books))
           => (pc' = "client" /\ SameBooks(books', saved.books))]_vars

\* a Library loaded back from the file it was saved to, with two Books of
\* different statuses
RoundTripWitness ==
    /\ call.op = "load_data"
    /\ saved.valid
    /\ DistinctIds(saved.books)
    /\ Len(saved.books) = 2
    /\ saved.books[1].status = "Vydana"
    /\ saved.books[2].status = "V nalichii"
    /\ SameBooks(books, saved.books)
    /\ pc = "client"

\* C7 (Spec): the status of every Book of the Library is one of the two
\* labels, never a code; a Book built with another status is not in it.
StatusIsAlwaysALabel ==
    \A i \in 1..Len(books) : books[i].status \in {"V nalichii", "Vydana"}

\* a Book added at the console whose status the status command then set
\* with code "0"
StatusChangedWitness ==
    /\ printed = "STATUS_SET"
    /\ \E i \in 1..Len(books) : books[i].id = default_id /\ books[i].status = "Vydana"

\* C8 (LibSpec): delete called with a Book object that is not in the
\* Library raises ValueError and leaves Library.books as it was.
DeleteAbsentBookFailsAndKeepsBooks ==
    [][(/\ call'.op = "delete"
        /\ call = NoCall
        /\ \A i \in 1..Len(books) : books[i].ref # call'.book[1].ref)
           => (raised' = "ValueError" /\ books' = books /\ pc' = "client")]_vars

\* delete was called with a Book that is not in the Library and has the
\* attributes of one that is
DeleteAbsentWitness ==
    /\ call.op = "delete"
    /\ raised = "ValueError"
    /\ \A i \in 1..Len(books) : books[i].ref # call.book[1].ref
    /\ \E i \in 1..Len(books) : SameFields(books[i], call.book[1])

\* the file's text is not JSON, or an element of its books array lacks one
\* of the five fields or has a status that is not a label
Malformed(text) ==
    \/ text.kind = "garbage"
    \/ /\ text.kind = "json"
       /\ "books" \in DOMAIN text.value
       /\ \E i \in 1..Len(text.value["books"]) :
            LET e == text.value["books"][i] IN
            \/ \E k \in {"id", "title", "author", "year", "status"} : k \notin DOMAIN e
            \/ e["status"] \notin {"V nalichii", "Vydana"}

\* C9 (Spec): a startup load of a malformed file ends the process before
\* the loop is entered, and a halted process takes no further step; a file
\* that cannot be opened leaves the process running, in the loop, with an
\* empty Library.
MalformedLoadHaltsBeforeLoop ==
    [][/\ (pc = "start" /\ filepath' = "f" /\ Malformed(disk)) => pc' = "halted"
       /\ (pc = "start" /\ filepath' # "" /\ ~CanOpenRead(filepath'))
             => (pc' = "loop" /\ halt' = "none" /\ books' = <<>>)
       /\ pc = "halted" => UNCHANGED vars]_vars

\* the run ended in the load, at the second element of the file
MalformedLoadWitness ==
    /\ pc = "halted"
    /\ filepath = "f"
    /\ Malformed(disk)
    /\ printed = "PATH_REQUEST"
    /\ Len(books) = 1

NoBookHasId(id) == \A i \in 1..Len(books) : books[i].id # id

\* the step is a delete command whose id matches no Book, or a status
\* command whose id matches no Book or whose code is neither "0" nor "1"
UnmatchedCommand ==
    \E id \in IdInputs :
        \/ NoBookHasId(id) /\ delete_(id)
        \/ \E code \in StatusInputs :
              (NoBookHasId(id) \/ code \notin {"0", "1"}) /\ status(id, code)

\* C10 (Spec): a delete or status command whose id matches no Book, and a
\* status command whose code is neither "0" nor "1", leave the Library as
\* it was and the process in the command loop. (Stated consequent first:
\* the step keeps the Library and the loop, or it is no such command.)
UnmatchedIdOrBadCodeKeepsLibrary ==
    [][(books' = books /\ pc' = "loop") \/ ~UnmatchedCommand]_vars

\* the status command refused a code for a Book that is in the Library
UnmatchedWitness ==
    /\ printed = "BAD_STATUS"
    /\ pc = "loop"
    /\ Len(books) = MaxBooks

====
